---- MODULE Spec2Model ----
(***************************************************************************)
(* Model of src/layers/core/grid-layer/grid-aggregator.js: the density     *)
(* grid aggregation pointToDensityGridData(points, cellSize, getPosition). *)
(*                                                                         *)
(* Numbers.  A JavaScript number is modelled as a record [k, v]: a finite  *)
(* value Num(n), NaN, or +/-Infinity.  Angles are fixed point: one unit is *)
(* 1/DEG of a degree (a milli-degree), so the position [0.1, 10] is        *)
(* <<100, 10000>>.  cellSize is in metres, as in the source.               *)
(* Math.cos is a fixed-point cosine (Bhaskara's rational approximation     *)
(* with range reduction), scaled by COS_SCALE; its sign and its zeros at   *)
(* +/-90 degrees are those of the cosine.  The inputs of the model keep    *)
(* the reference latitude off the exact poles, where the IEEE cosine is a  *)
(* tiny non-zero number that fixed point cannot represent.                 *)
(*                                                                         *)
(* Strings.  A property key is a sequence of one-character strings, built  *)
(* as the template literal builds it and taken apart as split and parseInt *)
(* take it apart.                                                          *)
(***************************************************************************)
EXTENDS Integers, Sequences, FiniteSets, TLC

VARIABLES points, cellSize, points0, pc, call, gridOffset, gridHash, i,
          early, layerData, result, firstResult

vars == <<points, cellSize, points0, pc, call, gridOffset, gridHash, i,
          early, layerData, result, firstResult>>

(***************************************************************************)
(* Bounds and units                                                        *)
(***************************************************************************)
MaxPoints == 3

R_EARTH == 6378000

\* fixed-point units per degree
DEG == 1000

\* fixed-point scale of the cosine
COS_SCALE == 500

(***************************************************************************)
(* JavaScript numbers                                                      *)
(***************************************************************************)
Num(n) == [k |-> "num", v |-> n]

NaN == [k |-> "nan", v |-> 0]

PosInf == [k |-> "inf", v |-> 1]

NegInf == [k |-> "inf", v |-> -1]

Undefined == [k |-> "undefined", v |-> 0]

IsNum(a) == a.k = "num"

\* a + b
fAdd(a, b) ==
  IF a.k = "nan" \/ b.k = "nan" THEN NaN
  ELSE IF a.k = "inf" /\ b.k = "inf" THEN (IF a.v = b.v THEN a ELSE NaN)
  ELSE IF a.k = "inf" THEN a
  ELSE IF b.k = "inf" THEN b
  ELSE Num(a.v + b.v)

\* a / 2
fHalf(a) == IF IsNum(a) THEN Num(a.v \div 2) ELSE a

\* a * b
fMul(a, b) ==
  IF a.k = "nan" \/ b.k = "nan" THEN NaN
  ELSE IF IsNum(a) /\ IsNum(b) THEN Num(a.v * b.v)
  ELSE IF a.v = 0 \/ b.v = 0 THEN NaN
  ELSE IF (a.v < 0) = (b.v < 0) THEN PosInf
  ELSE NegInf

\* a <= 0: every comparison with NaN is false
fLeZero(a) ==
  \/ IsNum(a) /\ a.v <= 0
  \/ a = NegInf

\* Math.floor(a / b) for a finite a and a finite or NaN b
fFloorDiv(a, b) ==
  IF ~(IsNum(a) /\ IsNum(b)) THEN NaN
  ELSE IF b.v > 0 THEN Num(a.v \div b.v)
  ELSE IF b.v < 0 THEN Num((0 - a.v) \div (0 - b.v))
  ELSE IF a.v > 0 THEN PosInf
  ELSE IF a.v < 0 THEN NegInf
  ELSE NaN

\* Math.min.apply(null, s): Infinity for no argument
MathMin(s) ==
  IF Len(s) = 0 THEN PosInf
  ELSE Num(CHOOSE m \in {s[n] : n \in 1..Len(s)} :
             \A n \in 1..Len(s) : m <= s[n])

\* Math.max.apply(null, s): -Infinity for no argument
MathMax(s) ==
  IF Len(s) = 0 THEN NegInf
  ELSE Num(CHOOSE m \in {s[n] : n \in 1..Len(s)} :
             \A n \in 1..Len(s) : m >= s[n])

\* 180 / Math.PI in fixed-point units per radian, with pi = 355/113
RAD2DEG == (180 * DEG * 113) \div 355

\* Bhaskara: cos(x) = (32400 - 4 x^2) / (32400 + x^2), x in degrees, here
\* with x in tenths of a degree, 0 <= x <= 900, scaled by COS_SCALE
CosQuadrant(x) == ((3240000 - 4 * x * x) * COS_SCALE) \div (3240000 + x * x)

\* Math.cos(lat * Math.PI / 180) for lat in fixed-point degrees
CosFixed(lat) ==
  LET r == lat % (360 * DEG)
      e == IF r > 180 * DEG THEN 360 * DEG - r ELSE r
  IN IF e <= 90 * DEG
       THEN CosQuadrant((e * 10) \div DEG)
       ELSE 0 - CosQuadrant(((180 * DEG - e) * 10) \div DEG)

MathCos(a) == IF IsNum(a) THEN Num(CosFixed(a.v)) ELSE NaN

\* sign-correct fixed-point quotient, rounded towards zero
Quot(a, b) ==
  LET q == (IF a < 0 THEN 0 - a ELSE a) \div (IF b < 0 THEN 0 - b ELSE b)
  IN IF (a < 0) = (b < 0) THEN q ELSE 0 - q

(***************************************************************************)
(* The offset calculator                                                   *)
(***************************************************************************)
\* (dy / R_EARTH) * (180 / Math.PI)
_calculateLatOffset(dy) ==
  IF IsNum(dy) THEN Num(Quot(dy.v * RAD2DEG, R_EARTH)) ELSE dy

\* (dx / R_EARTH) * (180 / Math.PI) / Math.cos(lat * Math.PI / 180)
_calculateLonOffset(lat, dx) ==
  LET y == _calculateLatOffset(dx)
      c == MathCos(lat)
  IN IF ~(IsNum(y) /\ IsNum(c)) THEN NaN
     ELSE IF c.v # 0 THEN Num(Quot(y.v * COS_SCALE, c.v))
     ELSE IF y.v > 0 THEN PosInf
     ELSE IF y.v < 0 THEN NegInf
     ELSE NaN

_calculateGridLatLonOffset(size, latitude) ==
  [yOffset |-> _calculateLatOffset(size),
   xOffset |-> _calculateLonOffset(latitude, size)]

(***************************************************************************)
(* Strings: template literal, split, parseInt                              *)
(***************************************************************************)
Digits == <<"0", "1", "2", "3", "4", "5", "6", "7", "8", "9">>

IsDigit(c) == \E d \in 1..10 : Digits[d] = c

DigitValue(c) == (CHOOSE d \in 1..10 : Digits[d] = c) - 1

RECURSIVE NatToString(_)
NatToString(n) ==
  IF n < 10 THEN <<Digits[n + 1]>>
  ELSE NatToString(n \div 10) \o <<Digits[(n % 10) + 1]>>

\* String(a), the conversion a template literal applies
NumberToString(a) ==
  IF a.k = "nan" THEN <<"N", "a", "N">>
  ELSE IF a.k = "inf"
    THEN (IF a.v < 0 THEN <<"-">> ELSE <<>>)
           \o <<"I", "n", "f", "i", "n", "i", "t", "y">>
  ELSE IF a.v < 0 THEN <<"-">> \o NatToString(0 - a.v)
  ELSE NatToString(a.v)

\* `${latIdx}-${lonIdx}`
CellKey(latIdx, lonIdx) ==
  NumberToString(latIdx) \o <<"-">> \o NumberToString(lonIdx)

\* s.split(sep) for a one-character separator
RECURSIVE Split(_, _)
Split(s, sep) ==
  IF \A n \in 1..Len(s) : s[n] # sep THEN <<s>>
  ELSE LET at == CHOOSE n \in 1..Len(s) :
                   s[n] = sep /\ \A m \in 1..(n - 1) : s[m] # sep
       IN <<SubSeq(s, 1, at - 1)>> \o Split(SubSeq(s, at + 1, Len(s)), sep)

\* the value of the longest prefix of digits of s, -1 when it is empty
RECURSIVE DigitPrefix(_, _, _)
DigitPrefix(s, n, acc) ==
  IF n > Len(s) \/ ~IsDigit(s[n]) THEN acc
  ELSE DigitPrefix(s, n + 1, (IF acc < 0 THEN 0 ELSE acc) * 10 + DigitValue(s[n]))

\* parseInt(s, 10): an optional sign, then the longest prefix of digits
ParseInt(s) ==
  LET signed == Len(s) > 0 /\ s[1] \in {"-", "+"}
      body == IF signed THEN Tail(s) ELSE s
      val == DigitPrefix(body, 1, -1)
  IN IF val < 0 THEN NaN
     ELSE IF signed /\ s[1] = "-" THEN Num(0 - val)
     ELSE Num(val)

\* String(undefined), what parseInt makes of a missing array element
UndefinedString == <<"u", "n", "d", "e", "f", "i", "n", "e", "d">>

\* idxs[n] (zero-based) as parseInt reads it
ArrayAt(a, n) == IF n + 1 <= Len(a) THEN a[n + 1] ELSE UndefinedString

(***************************************************************************)
(* Objects used as hash tables                                             *)
(***************************************************************************)
\* {} : keys in order of creation, and the value of each
EmptyObject == [keys |-> <<>>, cells |-> <<>>]

HasKey(h, key) == \E n \in 1..Len(h.keys) : h.keys[n] = key

KeyPos(h, key) == CHOOSE n \in 1..Len(h.keys) : h.keys[n] = key

\* accu[key]
Get(h, key) == h.cells[KeyPos(h, key)]

\* an assignment that never finds the key it wrote before
PutAlwaysNew(h, key, value) ==
  [keys |-> Append(h.keys, key), cells |-> Append(h.cells, value)]

\* accu[key] = value
Put(h, key, value) ==
  IF HasKey(h, key)
    THEN [h EXCEPT !.cells[KeyPos(h, key)] = value]
    ELSE [keys |-> Append(h.keys, key), cells |-> Append(h.cells, value)]

\* a canonical array index: "0", or digits without a leading zero
IsArrayIndex(key) ==
  /\ Len(key) > 0
  /\ \A n \in 1..Len(key) : IsDigit(key[n])
  /\ (Len(key) = 1 \/ key[1] # "0")

RECURSIVE InsertAsc(_, _)
InsertAsc(sorted, key) ==
  IF sorted = <<>> THEN <<key>>
  ELSE IF DigitPrefix(key, 1, -1) < DigitPrefix(Head(sorted), 1, -1)
    THEN <<key>> \o sorted
  ELSE <<Head(sorted)>> \o InsertAsc(Tail(sorted), key)

RECURSIVE SortAsc(_)
SortAsc(s) == IF s = <<>> THEN <<>> ELSE InsertAsc(SortAsc(Tail(s)), Head(s))

NotArrayIndex(key) == ~IsArrayIndex(key)

\* an enumeration that does not keep the order of creation
ObjectKeysReversed(h) ==
  [n \in 1..Len(h.keys) |-> h.keys[Len(h.keys) + 1 - n]]

\* Object.keys(h): array indices ascending, then the other keys in order of
\* creation
ObjectKeys(h) ==
  SortAsc(SelectSeq(h.keys, IsArrayIndex)) \o SelectSeq(h.keys, NotArrayIndex)

(***************************************************************************)
(* Inputs                                                                  *)
(***************************************************************************)
\* the caller's point records; getPosition reads their pos, [lon, lat].
\* a and b share a cell under the larger cell size; edge lies on the lower
\* edge of a cell in both directions; west and south lie outside the nominal
\* longitude and latitude ranges and get negative indices.
Pool ==
  { [id |-> "a", pos |-> <<0, 0>>],
    [id |-> "b", pos |-> <<10, 10>>],
    [id |-> "c", pos |-> <<10000, 10000>>],
    [id |-> "edge", pos |-> <<0 - 180000, 0 - 3920>>],
    [id |-> "west", pos |-> <<0 - 181000, 0>>],
    [id |-> "south", pos |-> <<0, 0 - 91000>>] }

\* cell sizes in metres: NaN, negative, zero, and two positive sizes large
\* enough for the fixed-point offsets (8 and 269 units) not to round to zero
CellSizes == {NaN, Num(0 - 1000), Num(0), Num(1000), Num(30000)}

PointSeqs == UNION {[1..n -> Pool] : n \in 0..MaxPoints}

getPosition(p) == p.pos

NoOffset == [yOffset |-> Undefined, xOffset |-> Undefined]

NoResult == [gridOffset |-> NoOffset, layerData |-> <<>>]

(***************************************************************************)
(* pointToDensityGridData, step by step                                    *)
(***************************************************************************)
Init ==
  /\ points \in PointSeqs
  /\ cellSize \in CellSizes
  /\ points0 = points
  /\ pc = "call"
  /\ call = 1
  /\ gridOffset = NoOffset
  /\ gridHash = EmptyObject
  /\ i = 0
  /\ early = FALSE
  /\ layerData = <<>>
  /\ result = NoResult
  /\ firstResult = NoResult

\* the latitude midpoint: (latMin + latMax) / 2
CenterLat(pts) ==
  LET allLat == [n \in 1..Len(pts) |-> getPosition(pts[n])[2]]
      latMin == MathMin(allLat)
      latMax == MathMax(allLat)
  IN fHalf(fAdd(latMin, latMax))

RECURSIVE InsertByLat(_, _)
InsertByLat(sorted, pt) ==
  IF sorted = <<>> THEN <<pt>>
  ELSE IF getPosition(pt)[2] < getPosition(Head(sorted))[2]
    THEN <<pt>> \o sorted
  ELSE <<Head(sorted)>> \o InsertByLat(Tail(sorted), pt)

RECURSIVE SortByLat(_)
SortByLat(s) ==
  IF s = <<>> THEN <<>> ELSE InsertByLat(SortByLat(Tail(s)), Head(s))

\* finding latMin and latMax by sorting the caller's array in place
OffsetSorting ==
  /\ pc = "call"
  /\ points' = SortByLat(points)
  /\ gridOffset' = _calculateGridLatLonOffset(cellSize, CenterLat(points))
  /\ pc' = "guard"
  /\ UNCHANGED <<cellSize, points0, call, gridHash, i, early, layerData,
                 result, firstResult>>

\* lines 50-56: the latitudes, their midpoint, the offsets
Offset ==
  /\ pc = "call"
  /\ gridOffset' = _calculateGridLatLonOffset(cellSize, CenterLat(points))
  /\ pc' = "guard"
  /\ UNCHANGED <<points, cellSize, points0, call, gridHash, i, early,
                 layerData, result, firstResult>>

\* the guard with < for <=
DegenerateStrict(off) ==
  \/ IsNum(off.xOffset) /\ off.xOffset.v < 0
  \/ IsNum(off.yOffset) /\ off.yOffset.v < 0
  \/ off.xOffset = NegInf
  \/ off.yOffset = NegInf

\* the guard written as !(xOffset > 0) || !(yOffset > 0)
DegenerateNotPositive(off) ==
  \/ ~((IsNum(off.xOffset) /\ off.xOffset.v > 0) \/ off.xOffset = PosInf)
  \/ ~((IsNum(off.yOffset) /\ off.yOffset.v > 0) \/ off.yOffset = PosInf)

\* if (gridOffset.xOffset <= 0 || gridOffset.yOffset <= 0)
Degenerate(off) == fLeZero(off.xOffset) \/ fLeZero(off.yOffset)

GuardReturn ==
  /\ pc = "guard"
  /\ Degenerate(gridOffset)
  /\ gridHash' = EmptyObject
  /\ early' = TRUE
  /\ pc' = "hashed"
  /\ UNCHANGED <<points, cellSize, points0, call, gridOffset, i, layerData,
                 result, firstResult>>

\* the reducer's accumulator kept from the call before
GuardPassStale ==
  /\ pc = "guard"
  /\ ~Degenerate(gridOffset)
  /\ early' = FALSE
  /\ i' = 0
  /\ pc' = "hash"
  /\ UNCHANGED <<points, cellSize, points0, call, gridOffset, gridHash,
                 layerData, result, firstResult>>

\* the guard is passed: points.reduce(..., {}) starts from a fresh object
GuardPass ==
  /\ pc = "guard"
  /\ ~Degenerate(gridOffset)
  /\ gridHash' = EmptyObject
  /\ early' = FALSE
  /\ i' = 0
  /\ pc' = "hash"
  /\ UNCHANGED <<points, cellSize, points0, call, gridOffset, layerData,
                 result, firstResult>>

LatIdx(pt, off) == fFloorDiv(Num(getPosition(pt)[2] + 90 * DEG), off.yOffset)

LonIdx(pt, off) == fFloorDiv(Num(getPosition(pt)[1] + 180 * DEG), off.xOffset)

\* the reducer without `accu[key] ||`: every point starts its cell anew
HashStepNoAccumulate(accu, pt, off) ==
  LET key == CellKey(LatIdx(pt, off), LonIdx(pt, off))
  IN Put(accu, key, [count |-> 1, points |-> <<pt>>])

\* one call of the reducer of _pointsToGridHashing
HashStep(accu, pt, off) ==
  LET key == CellKey(LatIdx(pt, off), LonIdx(pt, off))
      cell == IF HasKey(accu, key) THEN Get(accu, key)
              ELSE [count |-> 0, points |-> <<>>]
  IN Put(accu, key,
         [count |-> cell.count + 1, points |-> Append(cell.points, pt)])

HashPoint ==
  /\ pc = "hash"
  /\ i < Len(points)
  /\ gridHash' = HashStep(gridHash, points[i + 1], gridOffset)
  /\ i' = i + 1
  /\ UNCHANGED <<points, cellSize, points0, pc, call, gridOffset, early,
                 layerData, result, firstResult>>

HashReturn ==
  /\ pc = "hash"
  /\ i = Len(points)
  /\ pc' = "hashed"
  /\ UNCHANGED <<points, cellSize, points0, call, gridOffset, gridHash, i,
                 early, layerData, result, firstResult>>

BuildStart ==
  /\ pc = "hashed"
  /\ layerData' = <<>>
  /\ i' = 0
  /\ pc' = "build"
  /\ UNCHANGED <<points, cellSize, points0, call, gridOffset, gridHash,
                 early, result, firstResult>>

\* -180 + gridOffset.xOffset * lonIdx, -90 + gridOffset.yOffset * latIdx
Position(off, latIdx, lonIdx) ==
  <<fAdd(Num(0 - 180 * DEG), fMul(off.xOffset, lonIdx)),
    fAdd(Num(0 - 90 * DEG), fMul(off.yOffset, latIdx))>>

\* one call of the reducer of _getGridLayerDataFromGridHash
Datum(hash, off, key, n) ==
  LET idxs == Split(key, "-")
      latIdx == ParseInt(ArrayAt(idxs, 0))
      lonIdx == ParseInt(ArrayAt(idxs, 1))
      cell == Get(hash, key)
  IN [index |-> n,
      position |-> Position(off, latIdx, lonIdx),
      count |-> cell.count,
      points |-> cell.points]

BuildDatum ==
  /\ pc = "build"
  /\ i < Len(ObjectKeys(gridHash))
  /\ layerData' = Append(layerData,
                         Datum(gridHash, gridOffset, ObjectKeys(gridHash)[i + 1], i))
  /\ i' = i + 1
  /\ UNCHANGED <<points, cellSize, points0, pc, call, gridOffset, gridHash,
                 early, result, firstResult>>

Return ==
  /\ pc = "build"
  /\ i = Len(ObjectKeys(gridHash))
  /\ result' = [gridOffset |-> gridOffset, layerData |-> layerData]
  /\ pc' = "done"
  /\ UNCHANGED <<points, cellSize, points0, call, gridOffset, gridHash, i,
                 early, layerData, firstResult>>

\* the caller calls again with the same arguments
CallAgain ==
  /\ pc = "done"
  /\ call = 1
  /\ firstResult' = result
  /\ call' = 2
  /\ pc' = "call"
  /\ UNCHANGED <<points, cellSize, points0, gridOffset, gridHash, i, early,
                 layerData, result>>

Next ==
  \/ Offset
  \/ GuardReturn
  \/ GuardPass
  \/ HashPoint
  \/ HashReturn
  \/ BuildStart
  \/ BuildDatum
  \/ Return
  \/ CallAgain

Spec == Init /\ [][Next]_vars

(***************************************************************************)
(* Properties                                                              *)
(***************************************************************************)
Done == pc = "done"

Positive(size) == IsNum(size) /\ size.v > 0

\* the cell of a point under the offsets: (latIdx, lonIdx)
CellOf(p, off) == <<LatIdx(p, off), LonIdx(p, off)>>

RECURSIVE SumCount(_)
SumCount(ld) == IF ld = <<>> THEN 0 ELSE Head(ld).count + SumCount(Tail(ld))

Holds(rec, p) == \E n \in 1..Len(rec.points) : rec.points[n] = p

\* the points of pts that fall in the cell of p, in the order of pts
SameCell(pts, p, off) ==
  LET Test(q) == CellOf(q, off) = CellOf(p, off)
  IN SelectSeq(pts, Test)

\* the first position in pts of a point in the cell of p
FirstTouch(pts, p, off) ==
  CHOOSE n \in 1..Len(pts) :
    /\ CellOf(pts[n], off) = CellOf(p, off)
    /\ \A m \in 1..(n - 1) : CellOf(pts[m], off) # CellOf(p, off)

NominalLat(pts) ==
  \A n \in 1..Len(pts) :
    /\ getPosition(pts[n])[2] > 0 - 89 * DEG
    /\ getPosition(pts[n])[2] < 89 * DEG

\* C1: for a non-empty point sequence, cellSize > 0 and every latitude
\* strictly within (-89, 89), the counts of the returned layerData add up to
\* the number of input points and every input point is in the points list of
\* exactly one record.
C1_CountsCoverInput ==
  (Done /\ Len(points) > 0 /\ Positive(cellSize) /\ NominalLat(points)) =>
    /\ SumCount(result.layerData) = Len(points)
    /\ \A n \in 1..Len(points) :
         Cardinality({m \in 1..Len(result.layerData) :
                        Holds(result.layerData[m], points[n])}) = 1

C1_Witness ==
  /\ Done
  /\ Positive(cellSize)
  /\ NominalLat(points)
  /\ Len(points) = 3
  /\ Len(result.layerData) = 2
  /\ SumCount(result.layerData) = 3

\* C2: for every record of the returned layerData and every point p of its
\* points, the record's position is [-180 + xOffset*lonIdx,
\* -90 + yOffset*latIdx] for the latIdx and lonIdx the floor formula gives p
\* under the returned gridOffset.
C2_PositionMatchesPoints ==
  Done =>
    \A m \in 1..Len(result.layerData) :
      \A n \in 1..Len(result.layerData[m].points) :
        LET p == result.layerData[m].points[n]
            off == result.gridOffset
        IN result.layerData[m].position =
             Position(off, LatIdx(p, off), LonIdx(p, off))

\* C3: for every pair of integer indices, also negative ones, the key the
\* hasher builds is decoded by the layer data builder into the same
\* (latIdx, lonIdx), and the record's position is computed from them.
C3_KeyRoundTrip ==
  (pc \in {"hash", "hashed", "build", "done"} /\ ~early) =>
    \A n \in 1..Len(gridHash.keys) :
      LET key == gridHash.keys[n]
          p == gridHash.cells[n].points[1]
          latIdx == LatIdx(p, gridOffset)
          lonIdx == LonIdx(p, gridOffset)
          idxs == Split(key, "-")
      IN (IsNum(latIdx) /\ IsNum(lonIdx)) =>
           /\ ParseInt(ArrayAt(idxs, 0)) = latIdx
           /\ ParseInt(ArrayAt(idxs, 1)) = lonIdx
           /\ Datum(gridHash, gridOffset, key, 0).position =
                Position(gridOffset, latIdx, lonIdx)

\* C4: for cellSize = 0 or negative the guard returns before any point is
\* binned, layerData is empty for every point sequence, and the returned
\* gridOffset is the offset that was computed, with a non-positive yOffset.
C4_NonPositiveCellSize ==
  (IsNum(cellSize) /\ cellSize.v <= 0) =>
    /\ pc # "hash"
    /\ pc \in {"hashed", "build"} => (early /\ gridHash = EmptyObject)
    /\ Done =>
         /\ result.layerData = <<>>
         /\ result.gridOffset =
              _calculateGridLatLonOffset(cellSize, CenterLat(points))
         /\ IsNum(result.gridOffset.yOffset)
         /\ result.gridOffset.yOffset.v <= 0

C4_Witness ==
  /\ Done
  /\ IsNum(cellSize)
  /\ cellSize.v < 0
  /\ Len(points) = 2
  /\ early
  /\ result.layerData = <<>>

\* C5: whenever the computed xOffset or yOffset is NaN, the hasher returns
\* an empty grid hash, so layerData is empty and no point is binned under a
\* NaN index.
C5_NaNOffsetGuarded ==
  (pc \in {"hashed", "build", "done"}
     /\ (gridOffset.xOffset = NaN \/ gridOffset.yOffset = NaN)) =>
    /\ gridHash = EmptyObject
    /\ Done => result.layerData = <<>>

\* C6: the index fields are 0, 1, ..., n-1 in sequence order, and the cells
\* are in first-touch order: record A precedes record B exactly when the
\* first input point of A's cell comes before the first input point of B's.
C6_FirstTouchOrder ==
  Done =>
    LET ld == result.layerData
        off == result.gridOffset
    IN /\ \A m \in 1..Len(ld) : ld[m].index = m - 1
       /\ \A a, b \in 1..Len(ld) :
            (a < b) <=> (FirstTouch(points, ld[a].points[1], off)
                           < FirstTouch(points, ld[b].points[1], off))

C6_Witness ==
  /\ Done
  /\ Len(points) = 3
  /\ Len(result.layerData) = 2
  /\ result.layerData[1].points = <<points[1], points[3]>>
  /\ result.layerData[2].points = <<points[2]>>
  /\ getPosition(points[2])[2] < getPosition(points[1])[2]

\* C7: every record has count >= 1 and count = the length of its points
\* list; its points are the input points of one cell in input order; no two
\* records stand for the same cell, and every occupied cell has its record.
C7_OneRecordPerCell ==
  Done =>
    LET ld == result.layerData
        off == result.gridOffset
    IN /\ \A m \in 1..Len(ld) :
            /\ ld[m].count >= 1
            /\ ld[m].count = Len(ld[m].points)
            /\ ld[m].points = SameCell(points, ld[m].points[1], off)
       /\ \A a, b \in 1..Len(ld) :
            a # b => CellOf(ld[a].points[1], off) # CellOf(ld[b].points[1], off)
       /\ ~early =>
            \A n \in 1..Len(points) : \E m \in 1..Len(ld) : Holds(ld[m], points[n])

C7_Witness ==
  /\ Done
  /\ Len(result.layerData) = 2
  /\ \E m \in 1..2 :
       /\ result.layerData[m].count = 2
       /\ result.layerData[m].points[1] # result.layerData[m].points[2]

\* C8: the caller's point sequence is never changed, and the points lists
\* of the output hold the caller's own point records.
C8_InputsUntouched ==
  /\ points = points0
  /\ Done =>
       \A m \in 1..Len(result.layerData) :
         \A n \in 1..Len(result.layerData[m].points) :
           \E j \in 1..Len(points0) :
             result.layerData[m].points[n] = points0[j]

C8_Witness ==
  /\ Done
  /\ Len(points0) = 3
  /\ Len(result.layerData) = 3
  /\ getPosition(points0[1])[2] > getPosition(points0[2])[2]

\* C9: a second call with the same points and cellSize returns what the
\* first call returned: the same gridOffset and the same cells with the same
\* counts and member points.
C9_SecondCallSame ==
  (Done /\ call = 2) => result = firstResult

C9_Witness ==
  /\ Done
  /\ call = 2
  /\ Len(result.layerData) = 2
  /\ SumCount(result.layerData) = 3
  /\ firstResult = result

\* C10: for an empty point sequence layerData is empty for any cellSize; for
\* cellSize > 0 the guard does not fire (xOffset is NaN), no point is binned,
\* and the returned gridOffset has a positive yOffset and a NaN xOffset.
C10_EmptyInput ==
  (Done /\ Len(points) = 0) =>
    /\ result.layerData = <<>>
    /\ Positive(cellSize) =>
         /\ ~early
         /\ gridHash = EmptyObject
         /\ Positive(result.gridOffset.yOffset)
         /\ result.gridOffset.xOffset = NaN

C10_Witness ==
  /\ Done
  /\ Len(points) = 0
  /\ Positive(cellSize)
  /\ ~early
  /\ result.gridOffset.xOffset = NaN

====
